---------------------------- MODULE Spec2Model ----------------------------
(***************************************************************************)
(* Model of the garment-sketch colorizer of pantone-vision-v2:             *)
(* universal_garment_colorizer, _detect_garment_elements and               *)
(* _get_pixel_color of src/universal_colorizer.py.                         *)
(*                                                                         *)
(* An image is a function from pixel indices 0..h*w-1 (row-major) to a     *)
(* tuple of channel values; a mask is the set of pixel indices that are    *)
(* non-zero.  One call of universal_garment_colorizer is a run of the      *)
(* state machine, one action per numbered step of the function.            *)
(*                                                                         *)
(* The image is h x w with h and w a few pixels, so min_area (500 in the   *)
(* source, chosen there for photo-sized sketches) is scaled to the grid;   *)
(* every other threshold, kernel and formula is the source's own.          *)
(***************************************************************************)
EXTENDS Integers, Sequences, FiniteSets, TLC

\* ------------------------------------------------------------- bounds
\* Height and width of the sketches the model explores.
h == 11

w == 11

\* ----------------------------------------------------- program constants
\* universal_colorizer.py:130, scaled from 500 to the model's grid.
min_area == 4

\* universal_colorizer.py:85, a pixel is a line iff gray < 100.
LINE_THRESHOLD == 100

\* Another gray than the default.
MID_GRAY == <<128, 128, 128>>

\* universal_colorizer.py:46
DEFAULT_GRAY == <<168, 168, 168>>

\* ---------------------------------------------------------- geometry
N == h * w

Pix == 0 .. (N - 1)

Row(p) == p \div w

Col(p) == p % w

At(y, x) == y * w + x

Max(a, b) == IF a >= b THEN a ELSE b

Min(a, b) == IF a <= b THEN a ELSE b

Abs(a) == IF a >= 0 THEN a ELSE 0 - a

\* The pixel at offset d = <<dy, dx>> of p, or -1 when it is outside the image.
Off(p, d) ==
    LET y == Row(p) + d[1]
        x == Col(p) + d[2]
    IN  IF y >= 0 /\ y < h /\ x >= 0 /\ x < w THEN At(y, x) ELSE -1

\* border_mask of Step 5: row 0, row h-1, column 0, column w-1.
border_mask == {p \in Pix : Row(p) = 0 \/ Row(p) = h - 1 \/ Col(p) = 0 \/ Col(p) = w - 1}

\* -------------------------------------------------- structuring elements
\* np.ones((k, k)) centred at k // 2, as scipy centres it.
SquareKernel(k) ==
    {<<dy, dx>> : dy \in (0 - (k \div 2)) .. (k - 1 - (k \div 2)),
                  dx \in (0 - (k \div 2)) .. (k - 1 - (k \div 2))}

\* cv2.getStructuringElement(cv2.MORPH_ELLIPSE, (k, k)) for k = 3, 4, 5, anchored
\* at (k // 2, k // 2): row dy spans |dx| <= round(c * sqrt(1 - dy^2 / r^2)).
EllipseKernel(k) ==
    CASE k = 3 -> {<<-1, 0>>, <<0, -1>>, <<0, 0>>, <<0, 1>>, <<1, 0>>}
      [] k = 4 -> {<<-2, 0>>} \cup {<<dy, dx>> : dy \in -1 .. 1, dx \in -2 .. 1}
      [] k = 5 -> {<<-2, 0>>, <<2, 0>>} \cup {<<dy, dx>> : dy \in -1 .. 1, dx \in -2 .. 2}
      [] OTHER -> SquareKernel(k)

\* ------------------------------------------------------------ morphology
\* scipy.ndimage.binary_dilation: the Minkowski sum of the mask and the structure.
ScipyDilateOnce(S, K) ==
    UNION {{Off(s, d) : d \in K} : s \in S} \ {-1}

\* cv2.dilate: dst(p) = max over the kernel of src(p + d); outside pixels do not count.
CvDilateOnce(S, K) ==
    UNION {{Off(s, <<0 - d[1], 0 - d[2]>>) : d \in K} : s \in S} \ {-1}

\* scipy.ndimage.binary_erosion with border_value = 0: a pixel survives iff the
\* whole structure fits in the mask; a pixel outside the image counts as unset.
ScipyErode(S, K) ==
    {p \in S : \A d \in K : Off(p, d) \in S}

\* cv2.erode: dst(p) = min over the kernel of src(p + d); outside pixels do not count.
CvErode(S, K) ==
    {p \in Pix : \A d \in K : Off(p, d) = -1 \/ Off(p, d) \in S}

RECURSIVE ScipyDilate(_, _, _)
ScipyDilate(S, K, iterations) ==
    IF iterations <= 0 THEN S ELSE ScipyDilate(ScipyDilateOnce(S, K), K, iterations - 1)

RECURSIVE CvDilate(_, _, _)
CvDilate(S, K, iterations) ==
    IF iterations <= 0 THEN S ELSE CvDilate(CvDilateOnce(S, K), K, iterations - 1)

\* scipy.ndimage.binary_closing(structure = ones((5, 5)), iterations = 1)
ScipyClose(S) ==
    LET K == SquareKernel(5)
    IN  ScipyErode(ScipyDilateOnce(S, K), K)

\* cv2.morphologyEx(mask, cv2.MORPH_CLOSE, ellipse 5x5): dilate, then erode.
CvClose(S) ==
    LET K == EllipseKernel(5)
    IN  CvErode(CvDilateOnce(S, K), K)

\* ------------------------------------------------- connected components
\* The neighbours of p: 8-connectivity is cv2.connectedComponents' default,
\* 4-connectivity is scipy.ndimage.label's default structure.
Nbrs(p, conn) ==
    LET D == IF conn = 8
             THEN SquareKernel(3) \ {<<0, 0>>}
             ELSE {<<-1, 0>>, <<1, 0>>, <<0, -1>>, <<0, 1>>}
    IN  {Off(p, d) : d \in D} \ {-1}

RECURSIVE Reach(_, _, _, _)
Reach(S, conn, frontier, seen) ==
    IF frontier = {} THEN seen
    ELSE LET nxt == (UNION {Nbrs(c, conn) : c \in frontier} \cap S) \ seen
         IN  Reach(S, conn, nxt, seen \cup nxt)

\* The set of connected components (each a set of pixels) of mask S.
RECURSIVE Components(_, _)
Components(S, conn) ==
    IF S = {} THEN {}
    ELSE LET p == CHOOSE q \in S : \A r \in S : q <= r
             C == Reach(S, conn, {p}, {p})
         IN  {C} \cup Components(S \ C, conn)

\* ---------------------------------------------------------- colour spaces
\* Image.convert('L') on an RGB(A) pixel: ITU-R 601-2 luma in 16-bit fixed point.
GrayOf(c) == (c[1] * 19595 + c[2] * 38470 + c[3] * 7471 + 32768) \div 65536

Max3(c) == Max(c[1], Max(c[2], c[3]))

Min3(c) == Min(c[1], Min(c[2], c[3]))

\* saturate_cast<int>(a / b) for a, b > 0: round to nearest.
RoundDiv(a, b) == (2 * a + b) \div (2 * b)

\* cv2.cvtColor(img, cv2.COLOR_RGB2HSV) on an 8-bit pixel: H in 0..180, through
\* OpenCV's 12-bit fixed-point division tables.
CvHSV(c) ==
    LET v == Max3(c)
        diff == v - Min3(c)
        sdiv == IF v = 0 THEN 0 ELSE RoundDiv(1044480, v)
        hdiv == IF diff = 0 THEN 0 ELSE RoundDiv(122880, diff)
        s == (diff * sdiv + 2048) \div 4096
        h0 == IF v = c[1] THEN c[2] - c[3]
              ELSE IF v = c[2] THEN c[3] - c[1] + 2 * diff
              ELSE c[1] - c[2] + 4 * diff
        h1 == (h0 * hdiv + 2048) \div 4096
    IN  <<IF h1 < 0 THEN h1 + 180 ELSE h1, s, v>>

\* Image.convert('HSV') on an RGB pixel: H and S scaled to 0..255 and truncated.
PilHSV(c) ==
    LET maxc == Max3(c)
        cr == maxc - Min3(c)
        num == IF c[1] = maxc THEN c[2] - c[3]
               ELSE IF c[2] = maxc THEN 2 * cr + c[3] - c[1]
               ELSE 4 * cr + c[1] - c[2]
    IN  IF cr = 0 THEN <<0, 0, maxc>>
        ELSE <<(255 * ((num + 6 * cr) % (6 * cr))) \div (6 * cr), (255 * cr) \div maxc, maxc>>

\* cv2.inRange(hsv, [0, 20, 70], [20, 255, 255])
CvSkin(c) ==
    LET hsv == CvHSV(c)
    IN  hsv[1] >= 0 /\ hsv[1] <= 20 /\ hsv[2] >= 20 /\ hsv[2] <= 255
        /\ hsv[3] >= 70 /\ hsv[3] <= 255

\* The fallback's test: hue <= 20, saturation >= 20, value >= 70 on PIL's HSV.
PilSkin(c) ==
    LET hsv == PilHSV(c)
    IN  hsv[1] >= 0 /\ hsv[1] <= 20 /\ hsv[2] >= 20 /\ hsv[3] >= 70

\* ------------------------------------------------------- colour strings
\* A Python string is the sequence of its characters; None and '' (both falsy)
\* are the empty sequence.  A parsed colour is a triple, and None is <<>>.
HexVal(c) ==
    CASE c = "0" -> 0 [] c = "1" -> 1 [] c = "2" -> 2 [] c = "3" -> 3 [] c = "4" -> 4
      [] c = "5" -> 5 [] c = "6" -> 6 [] c = "7" -> 7 [] c = "8" -> 8 [] c = "9" -> 9
      [] c \in {"a", "A"} -> 10 [] c \in {"b", "B"} -> 11 [] c \in {"c", "C"} -> 12
      [] c \in {"d", "D"} -> 13 [] c \in {"e", "E"} -> 14 [] c \in {"f", "F"} -> 15
      [] OTHER -> -1

IsDigit(c) == c \in {"0", "1", "2", "3", "4", "5", "6", "7", "8", "9"}

\* s[i:j] of Python (0-based, end clipped to the length).
Slice(s, i, j) == SubSeq(s, i + 1, Min(j, Len(s)))

\* int(s, 16) for a slice s of at most two characters: [ok, val]; ok = FALSE is
\* ValueError.  Python accepts a sign and surrounding blanks around the digits.
PyIntHex(s) ==
    LET err == [ok |-> FALSE, val |-> 0]
    IN  CASE Len(s) = 1 /\ HexVal(s[1]) >= 0 -> [ok |-> TRUE, val |-> HexVal(s[1])]
          [] Len(s) = 2 /\ HexVal(s[1]) >= 0 /\ HexVal(s[2]) >= 0 ->
                 [ok |-> TRUE, val |-> 16 * HexVal(s[1]) + HexVal(s[2])]
          [] Len(s) = 2 /\ s[1] \in {"+", " "} /\ HexVal(s[2]) >= 0 ->
                 [ok |-> TRUE, val |-> HexVal(s[2])]
          [] Len(s) = 2 /\ s[1] = "-" /\ HexVal(s[2]) >= 0 ->
                 [ok |-> TRUE, val |-> 0 - HexVal(s[2])]
          [] Len(s) = 2 /\ HexVal(s[1]) >= 0 /\ s[2] = " " ->
                 [ok |-> TRUE, val |-> HexVal(s[1])]
          [] OTHER -> err

\* s.lstrip('#')
RECURSIVE LStripHash(_)
LStripHash(s) == IF Len(s) > 0 /\ s[1] = "#" THEN LStripHash(Tail(s)) ELSE s

\* tuple(int(hex_color[i:i+2], 16) for i in (0, 2, 4)) on s.lstrip('#'), or <<>>
\* when an int() raises.
HexTriple(s) ==
    LET hex_color == LStripHash(s)
        r == PyIntHex(Slice(hex_color, 0, 2))
        g == PyIntHex(Slice(hex_color, 2, 4))
        b == PyIntHex(Slice(hex_color, 4, 6))
    IN  IF r.ok /\ g.ok /\ b.ok THEN <<r.val, g.val, b.val>> ELSE <<>>

\* re.findall(r'\d+', s) followed by int(): the values of the maximal digit runs.
RECURSIVE DigitRuns(_, _, _)
DigitRuns(s, cur, inrun) ==
    IF s = <<>> THEN (IF inrun THEN <<cur>> ELSE <<>>)
    ELSE IF IsDigit(s[1]) THEN DigitRuns(Tail(s), 10 * cur + HexVal(s[1]), TRUE)
    ELSE (IF inrun THEN <<cur>> ELSE <<>>) \o DigitRuns(Tail(s), 0, FALSE)

Lower(c) == CASE c = "R" -> "r" [] c = "G" -> "g" [] c = "B" -> "b" [] OTHER -> c

\* 'rgb' in target_color.lower() or '(' in target_color
LooksLikeRgb(s) ==
    \/ \E i \in 1 .. (Len(s) - 2) :
           Lower(s[i]) = "r" /\ Lower(s[i + 1]) = "g" /\ Lower(s[i + 2]) = "b"
    \/ \E i \in 1 .. Len(s) : s[i] = "("

\* Lines 46-67: the target colour of the call.
ParseTargetColor(tc) ==
    IF tc = <<>> THEN DEFAULT_GRAY
    ELSE IF tc[1] = "#"
    THEN (IF HexTriple(tc) = <<>> THEN DEFAULT_GRAY ELSE HexTriple(tc))
    ELSE IF LooksLikeRgb(tc)
    THEN LET numbers == DigitRuns(tc, 0, FALSE)
         IN  IF Len(numbers) >= 3 THEN <<numbers[1], numbers[2], numbers[3]>>
             ELSE DEFAULT_GRAY
    ELSE DEFAULT_GRAY

BLACK_HEX == <<"#", "0", "0", "0", "0", "0", "0">>

\* _get_pixel_color.parse_color: None (<<>>) or an RGB triple.
ParseColorBlackAsColor(color_str) ==
    IF color_str = <<>> THEN <<>>
    ELSE IF color_str[1] = "#" THEN HexTriple(color_str)
    ELSE <<>>

parse_color(color_str) ==
    IF color_str = <<>> \/ color_str = BLACK_HEX THEN <<>>
    ELSE IF color_str[1] = "#" THEN HexTriple(color_str)
    ELSE <<>>

\* ------------------------------------------------------------- the blend
\* The pairs (t, g), t <= 400, for which the double t * (0.6 + (g / 255.0) * 0.4)
\* falls just short of its exact, integral value, so that int() gives one less.
FloatShortRGB ==
    {
     <<17, 30>>, <<34, 30>>, <<51, 5>>, <<51, 30>>, <<68, 30>>, <<75, 17>>, <<75, 51>>,
     <<75, 85>>, <<85, 30>>, <<85, 45>>, <<102, 5>>, <<102, 30>>, <<119, 30>>,
     <<125, 51>>, <<136, 30>>, <<150, 17>>, <<150, 51>>, <<150, 85>>, <<153, 5>>,
     <<153, 30>>, <<153, 105>>, <<165, 85>>, <<170, 30>>, <<170, 45>>, <<175, 51>>,
     <<187, 30>>, <<204, 5>>, <<204, 30>>, <<221, 30>>, <<225, 17>>, <<238, 30>>,
     <<250, 51>>, <<255, 30>>, <<255, 190>>, <<272, 30>>, <<275, 51>>, <<285, 85>>,
     <<289, 30>>, <<289, 105>>, <<300, 17>>, <<300, 51>>, <<300, 85>>, <<306, 5>>,
     <<306, 30>>, <<306, 105>>, <<315, 85>>, <<323, 30>>, <<323, 105>>, <<325, 51>>,
     <<330, 85>>, <<340, 30>>, <<340, 45>>, <<345, 85>>, <<350, 51>>, <<357, 5>>,
     <<357, 30>>, <<374, 30>>, <<375, 17>>, <<375, 51>>, <<391, 30>>
    }

\* The same for int(s / 3 * factor), s <= 800 the sum of the target's channels.
FloatShortGray ==
    {
     <<35, 0>>, <<51, 30>>, <<55, 0>>, <<70, 0>>, <<85, 45>>, <<85, 180>>, <<85, 225>>,
     <<102, 30>>, <<110, 0>>, <<125, 0>>, <<140, 0>>, <<153, 5>>, <<153, 30>>,
     <<155, 0>>, <<170, 45>>, <<170, 180>>, <<170, 225>>, <<204, 30>>, <<205, 0>>,
     <<220, 0>>, <<225, 17>>, <<225, 51>>, <<225, 85>>, <<235, 0>>, <<250, 0>>,
     <<255, 30>>, <<255, 45>>, <<265, 0>>, <<280, 0>>, <<295, 0>>, <<306, 5>>,
     <<306, 30>>, <<310, 0>>, <<325, 153>>, <<340, 45>>, <<340, 180>>, <<340, 225>>,
     <<357, 30>>, <<375, 51>>, <<395, 0>>, <<408, 30>>, <<410, 0>>, <<425, 0>>,
     <<425, 18>>, <<425, 27>>, <<425, 45>>, <<425, 54>>, <<425, 72>>, <<425, 81>>,
     <<425, 99>>, <<425, 108>>, <<425, 117>>, <<425, 126>>, <<425, 135>>, <<425, 153>>,
     <<425, 162>>, <<425, 171>>, <<425, 180>>, <<425, 225>>, <<440, 0>>, <<450, 17>>,
     <<450, 51>>, <<450, 85>>, <<455, 0>>, <<459, 5>>, <<459, 30>>, <<459, 105>>,
     <<470, 0>>, <<485, 0>>, <<495, 85>>, <<500, 0>>, <<510, 30>>, <<510, 45>>,
     <<515, 0>>, <<525, 51>>, <<530, 0>>, <<545, 0>>, <<560, 0>>, <<561, 30>>,
     <<575, 0>>, <<590, 0>>, <<605, 0>>, <<612, 5>>, <<612, 30>>, <<620, 0>>,
     <<635, 0>>, <<650, 153>>, <<663, 30>>, <<675, 17>>, <<680, 45>>, <<680, 180>>,
     <<680, 225>>, <<714, 30>>, <<725, 153>>, <<731, 180>>, <<750, 51>>, <<765, 30>>,
     <<765, 190>>, <<775, 0>>, <<775, 153>>, <<790, 0>>, <<799, 180>>
    }

\* The blend without its brightness term: int(t * 0.6).
BlendChannelFlat(t, g) == (t * 6) \div 10

\* int(t * factor), factor = 0.6 + (gray / 255.0) * 0.4 (lines 257-265).
BlendChannel(t, g) ==
    IF t >= 0
    THEN (t * (1530 + 4 * g)) \div 2550 - (IF <<t, g>> \in FloatShortRGB THEN 1 ELSE 0)
    ELSE 0 - (((0 - t) * (1530 + 4 * g)) \div 2550)

\* int(sum(target_color_rgb) / 3 * factor) (lines 269-271).
BlendGray(t, g) ==
    LET sum == t[1] + t[2] + t[3]
    IN  IF sum >= 0
        THEN (sum * (1530 + 4 * g)) \div 7650 - (IF <<sum, g>> \in FloatShortGray THEN 1 ELSE 0)
        ELSE 0 - (((0 - sum) * (1530 + 4 * g)) \div 7650)

\* ------------------------------------------------------ element regions
ELEMENT_NAMES == {"collar", "straps", "trim", "main"}

priority_order_trim_first == <<"trim", "straps", "collar", "main">>

\* Line 380
priority_order == <<"straps", "collar", "trim", "main">>

\* Line 309
EdgeZoneWidth == Max(5, Min(w, h) \div 20)

\* _detect_garment_elements with main keeping the trim pixels.
DetectGarmentElementsMainOverTrim(mask, cv) ==
    LET collar == {p \in mask : Row(p) < h \div 4
                                /\ Col(p) >= w \div 4 /\ Col(p) < (3 * w) \div 4}
        straps == {p \in mask : Row(p) < h \div 3
                                /\ (Col(p) < w \div 4 \/ Col(p) >= (3 * w) \div 4)}
        trim == IF cv THEN mask \ CvErode(mask, EllipseKernel(EdgeZoneWidth))
                ELSE mask \ ScipyErode(mask, SquareKernel(EdgeZoneWidth))
        main == mask \ (collar \cup straps)
        all == [n \in ELEMENT_NAMES |->
                   CASE n = "collar" -> collar [] n = "straps" -> straps
                     [] n = "trim" -> trim [] OTHER -> main]
    IN  [n \in {m \in ELEMENT_NAMES : all[m] # {}} |-> all[n]]

\* _detect_garment_elements with the collar spanning the top zone from column 0.
DetectGarmentElementsWideCollar(mask, cv) ==
    LET collar == {p \in mask : Row(p) < h \div 4 /\ Col(p) < (3 * w) \div 4}
        straps == {p \in mask : Row(p) < h \div 3
                                /\ (Col(p) < w \div 4 \/ Col(p) >= (3 * w) \div 4)}
        trim == IF cv THEN mask \ CvErode(mask, EllipseKernel(EdgeZoneWidth))
                ELSE mask \ ScipyErode(mask, SquareKernel(EdgeZoneWidth))
        main == mask \ (collar \cup straps \cup trim)
        all == [n \in ELEMENT_NAMES |->
                   CASE n = "collar" -> collar [] n = "straps" -> straps
                     [] n = "trim" -> trim [] OTHER -> main]
    IN  [n \in {m \in ELEMENT_NAMES : all[m] # {}} |-> all[n]]

\* _detect_garment_elements (lines 297-360): a dict that holds a name only when
\* its mask is not empty.  cv selects the OpenCV branch of the trim computation.
DetectGarmentElements(mask, cv) ==
    LET collar == {p \in mask : Row(p) < h \div 4
                                /\ Col(p) >= w \div 4 /\ Col(p) < (3 * w) \div 4}
        straps == {p \in mask : Row(p) < h \div 3
                                /\ (Col(p) < w \div 4 \/ Col(p) >= (3 * w) \div 4)}
        trim == IF cv THEN mask \ CvErode(mask, EllipseKernel(EdgeZoneWidth))
                ELSE mask \ ScipyErode(mask, SquareKernel(EdgeZoneWidth))
        main == mask \ (collar \cup straps \cup trim)
        all == [n \in ELEMENT_NAMES |->
                   CASE n = "collar" -> collar [] n = "straps" -> straps
                     [] n = "trim" -> trim [] OTHER -> main]
    IN  [n \in {m \in ELEMENT_NAMES : all[m] # {}} |-> all[n]]

\* _get_pixel_color (lines 362-391): the first region in priority order that holds
\* the pixel, has a colour supplied, and whose colour parse_color accepts.
RECURSIVE PixelColorFrom(_, _, _, _, _)
PixelColorFrom(i, p, element_regions, element_colors, default_color) ==
    IF i > Len(priority_order) THEN default_color
    ELSE LET region_name == priority_order[i]
         IN  IF /\ region_name \in DOMAIN element_regions
                /\ region_name \in DOMAIN element_colors
                /\ p \in element_regions[region_name]
                /\ parse_color(element_colors[region_name]) # <<>>
             THEN parse_color(element_colors[region_name])
             ELSE PixelColorFrom(i + 1, p, element_regions, element_colors, default_color)

GetPixelColor(p, element_regions, element_colors, default_color) ==
    PixelColorFrom(1, p, element_regions, element_colors, default_color)

\* --------------------------------------------------------------- inputs
\* The sketches explored: a white canvas, one rectangular outline drawn in black
\* or in mid-grey ink, and at most one extra pixel of another colour.
PaletteRGB(kind) ==
    CASE kind = "W" -> <<255, 255, 255>>      \* white canvas
      [] kind = "K" -> <<0, 0, 0>>            \* black line
      [] kind = "G" -> <<200, 200, 200>>      \* mid grey: neither white nor line
      [] kind = "D" -> <<250, 250, 250>>      \* shaded white
      [] kind = "T" -> <<255, 246, 250>>      \* tinted white, channels 9 apart
      [] kind = "C" -> <<255, 201, 230>>      \* cream, channels 54 apart
      [] OTHER -> <<230, 150, 110>>           \* "S": skin tone

OnRect(p, t, l, b, r) ==
    \/ Row(p) \in {t, b} /\ Col(p) >= l /\ Col(p) <= r
    \/ Col(p) \in {l, r} /\ Row(p) >= t /\ Row(p) <= b

Drawing(t, l, b, r, ink, fp, fk) ==
    [p \in Pix |-> IF p = fp THEN fk ELSE IF OnRect(p, t, l, b, r) THEN ink ELSE "W"]

\* The drawing as a PIL image of the given mode.
Render(d, mode) ==
    [mode |-> mode,
     px |-> [p \in Pix |->
                CASE mode = "L" -> <<GrayOf(PaletteRGB(d[p]))>>
                  [] mode = "RGBA" -> PaletteRGB(d[p]) \o <<255>>
                  [] OTHER -> PaletteRGB(d[p])]]

Rects == {<<t, l, h - 1 - m, w - 1 - m>> : t \in {0, 2}, l \in {0, 1, 2}, m \in {0, 2}}

FeaturePixels == {At(h \div 2, w \div 2), At(h \div 2, 0), At(3, 3)}

\* No extra pixel, a pixel of another colour, or a one-pixel gap in the outline.
Features ==
    {<<-1, "W">>, <<At(h \div 2, 0), "W">>} \cup (FeaturePixels \X {"K", "G", "S", "D"})

Drawings ==
    {Drawing(rc[1], rc[2], rc[3], rc[4], ink, f[1], f[2]) :
        rc \in Rects, ink \in {"K", "G"}, f \in Features}

PlainDrawings ==
    {Drawing(rc[1], rc[2], rc[3], rc[4], ink, -1, "W") : rc \in Rects, ink \in {"K", "G"}}

\* Scenario A of the specification at the model's scale: a closed black
\* rectangular outline two pixels clear of every border.
ScenarioA == Drawing(2, 2, h - 3, w - 3, "K", -1, "W")

\* A closed black outline clear of the border, pinched at mid-height: two spurs
\* leave a one-pixel white neck, so the white interior is one piece while the
\* dilated line cuts the candidate pixels into an upper and a lower row.
Hourglass ==
    [p \in Pix |->
        IF OnRect(p, 1, 1, 9, 8) \/ (Row(p) = 5 /\ Col(p) \in {2, 3, 5, 6, 7})
        THEN "K" ELSE "W"]

\* Closed black outlines clear of the border around a small white area: the
\* candidate pixels they enclose number 1, exactly min_area, and min_area + 2.
SmallEnclosures ==
    {Drawing(2, 2, 6, 6, "K", -1, "W"),
     Drawing(2, 2, 7, 7, "K", -1, "W"),
     Drawing(2, 2, 7, 8, "K", -1, "W")}

\* The largest of them with a skin-tone pixel in a corner of the white area:
\* skin exclusion leaves a fragment smaller than min_area.
EnclosureWithSkin == Drawing(2, 2, 7, 8, "K", At(4, 4), "S")

\* A black outline on the image border around a white area with one lightly
\* shaded pixel (250) at its centre.
ShadedSketch == Drawing(0, 0, h - 1, w - 1, "K", At(h \div 2, w \div 2), "D")

\* A mid-grey frame on the image border around a white area: no line, and white
\* pixels from row 1 and column 1 on.
GreyFrame == Drawing(0, 0, h - 1, w - 1, "G", -1, "W")

\* A black outline on the image border around a white area with one tinted
\* pixel at its centre.
TintedSketches == {Drawing(0, 0, h - 1, w - 1, "K", At(h \div 2, w \div 2), k) : k \in {"T", "C"}}

\* Scenario B of the specification at the model's scale: a black rectangular
\* outline whose sides lie on the image border.
ScenarioB == Drawing(0, 0, h - 1, w - 1, "K", -1, "W")

TargetColors ==
    { <<>>,                                                     \* None
      <<"#", "F", "F", "0", "0", "0", "0">>,
      <<"#", "f", "f", "6", "9", "b", "4">>,
      <<"#", "F", "A", "F", "A", "F", "A">>,                    \* near white
      <<"r", "g", "b", "(", "2", "5", "5", ",", "0", ",", "0", ")">>,
      <<"#", "1", "2", "3", "4", "5">>,
      <<"#", "F", "F", "0", "0", "0", "0", "F", "F">>,
      <<"#", "#", "F", "F", "0", "0", "0", "0">>,
      <<"#", "G", "G", "0", "0", "0", "0">>,
      <<"#", "F", "F", "F">>,
      <<"r", "e", "d">>,
      <<"F", "F", "0", "0", "0", "0">>,
      <<"r", "g", "b", "(", "1", ",", "2", ")">>,
      <<"(", "1", ",", "2", ",", "3", ")">>,
      <<"r", "g", "b", "(", "3", "0", "0", ",", "0", ",", "0", ")">> }

PINK_HEX == <<"#", "F", "F", "6", "9", "B", "4">>

BLUE_HEX == <<"#", "0", "0", "0", "0", "F", "F">>

GREEN_HEX == <<"#", "0", "0", "F", "F", "0", "0">>

BLUE_RGB == <<"r", "g", "b", "(", "0", ",", "0", ",", "2", "5", "5", ")">>

\* element_colors: a dict from element names to colour strings; None is the empty dict.
ElementColorDicts ==
    { [n \in {"straps", "main"} |-> IF n = "straps" THEN BLACK_HEX ELSE PINK_HEX],
      [n \in {"straps", "trim"} |-> IF n = "straps" THEN BLUE_HEX ELSE GREEN_HEX],
      [n \in {"straps", "trim"} |-> IF n = "straps" THEN BLACK_HEX ELSE GREEN_HEX],
      [n \in {"straps", "trim"} |-> IF n = "straps" THEN BLUE_RGB ELSE GREEN_HEX],
      [n \in {"collar", "trim", "main"} |->
          IF n = "collar" THEN BLUE_HEX ELSE IF n = "trim" THEN GREEN_HEX ELSE PINK_HEX],
      [n \in {"straps"} |-> <<>>] }

NO_ELEMENT_COLORS == [n \in {} |-> <<>>]

\* ---------------------------------------------------------------- state
VARIABLES
    OPENCV_AVAILABLE,   \* module global, set at import (lines 23-28)
    numpy_checks_range, \* whether the installed NumPy refuses a value outside 0..255
    sketch,             \* the caller's image: [mode, px]
    target_color,       \* arguments of the call
    white_threshold,
    color_variance,
    skin_protection,    \* in tenths: 3 is 0.3
    element_colors,
    pc,                 \* the step the call is at
    TARGET_GRAY,        \* locals of universal_garment_colorizer
    gray,
    lines,
    lines_dilated,
    white_areas,
    white_no_lines,
    garment_mask,
    element_regions,
    result,
    ret,                \* the dict returned
    earlier,            \* what the caller's earlier call returned, if it made one
    other,              \* a second invocation in the same process, while not scheduled
    server_pc,          \* the step a SketchColorizer method is at, "idle" outside one
    server_ret,         \* the dict the SketchColorizer method returned
    hf_api_key,         \* SketchColorizer.hf_api_key
    request,            \* the arguments colorize_sketch was called with
    response,           \* how the HuggingFace request ended: a status code or "raises"
    exception,          \* the exception in flight, "" when none
    call_args,          \* the arguments _basic_colorization is being called with
    universal_calls,    \* the invocations of universal_garment_colorizer so far
    ai_calls,           \* the invocations of _ai_colorization so far
    garment_analysis,   \* locals of the contour-based _basic_colorization
    binary,
    skin_mask,
    intimate_mask,
    clothing_mask

inputs == <<OPENCV_AVAILABLE, numpy_checks_range, sketch, target_color, white_threshold, color_variance,
            skin_protection, element_colors>>

locals == <<TARGET_GRAY, gray, lines, lines_dilated, white_areas, white_no_lines,
            garment_mask, element_regions, result>>

\* What lies outside the invocation at hand.
callers == <<earlier, other>>

\* The state of the SketchColorizer methods of the server files.
server == <<server_pc, server_ret, hf_api_key, request, response, exception, call_args,
            universal_calls, ai_calls, garment_analysis, binary, skin_mask, intimate_mask,
            clothing_mask>>

vars == <<inputs, pc, locals, ret, callers, server>>

\* len(img.shape) == 3
MultiChannel == sketch.mode \in {"RGB", "RGBA"}

Channels == CASE sketch.mode = "L" -> 1 [] sketch.mode = "RGBA" -> 4 [] OTHER -> 3

NOT_RETURNED == [returned |-> FALSE]

NO_OTHER == [running |-> FALSE]

NO_REQUEST == [made |-> FALSE]

\* No SketchColorizer method is running: universal_garment_colorizer is called
\* directly.
InitServerIdle ==
    /\ server_pc = "idle"
    /\ server_ret = NOT_RETURNED
    /\ hf_api_key = <<>>
    /\ request = NO_REQUEST
    /\ response = "none"
    /\ exception = ""
    /\ call_args = NO_REQUEST
    /\ universal_calls = 0
    /\ ai_calls = 0
    /\ garment_analysis = [garment_type |-> <<>>, category |-> <<>>]
    /\ binary = {}
    /\ skin_mask = {}
    /\ intimate_mask = {}
    /\ clothing_mask = {}

InitLocals ==
    /\ pc = "parse"
    /\ TARGET_GRAY = DEFAULT_GRAY
    /\ gray = [p \in Pix |-> 0]
    /\ lines = {}
    /\ lines_dilated = {}
    /\ white_areas = {}
    /\ white_no_lines = {}
    /\ garment_mask = {}
    /\ element_regions = [n \in {} |-> {}]
    /\ result = sketch.px
    /\ ret = NOT_RETURNED
    /\ earlier = NOT_RETURNED
    /\ other = NO_OTHER

\* Calls that vary the sketch.  The NumPy build matters only to a call whose
\* target has a channel above 255, so only the calls that vary the target vary it.
InitSketches ==
    /\ sketch \in {Render(d, "RGB") :
                        d \in Drawings \cup {Hourglass, EnclosureWithSkin} \cup SmallEnclosures}
                    \cup {Render(d, "L") : d \in PlainDrawings}
    /\ target_color = <<"#", "F", "F", "0", "0", "0", "0">>
    /\ element_colors = NO_ELEMENT_COLORS
    /\ numpy_checks_range = FALSE

\* Calls that vary the target colour string.
InitTargets ==
    /\ sketch \in {Render(ScenarioB, mode) : mode \in {"RGB", "L", "RGBA"}}
                    \cup {Render(ShadedSketch, "RGB")}
    /\ target_color \in TargetColors
    /\ element_colors = NO_ELEMENT_COLORS
    /\ numpy_checks_range \in BOOLEAN

\* Calls that vary the per-element colours.
InitElements ==
    /\ sketch \in {Render(d, "RGB") :
                        d \in {ScenarioB, GreyFrame,
                               Drawing(0, 0, h - 1, w - 1, "K", At(h \div 2, w \div 2), "K")}}
    /\ target_color \in {<<>>, <<"#", "F", "F", "0", "0", "0", "0">>}
    /\ element_colors \in ElementColorDicts
    /\ numpy_checks_range = FALSE

\* skin_protection in tenths: the default 0.3 and, for a sketch with a
\* skin-tone pixel, 0.7 and the levels at which the kernel or the iterations
\* change.
ProtectionLevels == {0, 5, 7, 8, 10}

InitProtection ==
    /\ sketch = Render(Drawing(0, 0, h - 1, w - 1, "K", At(h \div 2, w \div 2), "S"), "RGB")
    /\ target_color = <<"#", "F", "F", "0", "0", "0", "0">>
    /\ element_colors = NO_ELEMENT_COLORS
    /\ numpy_checks_range = FALSE
    /\ skin_protection \in ProtectionLevels

\* Calls that vary white_threshold and color_variance, on sketches with a
\* near-white pixel whose channels differ.
InitThresholds ==
    /\ sketch \in {Render(d, "RGB") : d \in TintedSketches}
    /\ target_color = <<"#", "F", "F", "0", "0", "0", "0">>
    /\ element_colors = NO_ELEMENT_COLORS
    /\ numpy_checks_range = FALSE
    /\ skin_protection = 3
    /\ white_threshold \in {200, 245, 250}
    /\ color_variance \in {5, 10, 30, 55}

Init ==
    /\ OPENCV_AVAILABLE \in BOOLEAN
    /\ \/ /\ white_threshold = 245
          /\ color_variance = 30
          /\ \/ skin_protection = 3 /\ (InitSketches \/ InitTargets \/ InitElements)
             \/ InitProtection
       \/ InitThresholds
    /\ InitLocals
    /\ InitServerIdle

\* --------------------------------------------------------------- actions
\* Lines 46-72: parse the target colour (a parse error keeps the default), copy
\* the image.
ParseColor ==
    /\ pc = "parse"
    /\ TARGET_GRAY' = ParseTargetColor(target_color)
    /\ result' = sketch.px
    /\ pc' = "lines"
    /\ UNCHANGED <<server, inputs, callers, gray, lines, lines_dilated, white_areas, white_no_lines,
                   garment_mask, element_regions, ret>>

\* Step 1, lines 76-90: grayscale, line threshold, 3x3 dilation (scipy on both paths).
DetectLines ==
    /\ pc = "lines"
    /\ LET g == [p \in Pix |-> IF MultiChannel THEN GrayOf(sketch.px[p]) ELSE sketch.px[p][1]]
           ln == {p \in Pix : g[p] < LINE_THRESHOLD}
       IN  /\ gray' = g
           /\ lines' = ln
           /\ lines_dilated' = ScipyDilate(ln, SquareKernel(3), 1)
    /\ pc' = "white"
    /\ UNCHANGED <<server, inputs, callers, TARGET_GRAY, white_areas, white_no_lines, garment_mask,
                   element_regions, result, ret>>

\* white_mask testing the sum of the three channel differences against
\* color_variance.
WhiteMaskSummedSpread ==
    IF MultiChannel
    THEN {p \in Pix :
            LET c == sketch.px[p]
            IN  /\ c[3] > white_threshold /\ c[2] > white_threshold /\ c[1] > white_threshold
                /\ Abs(c[3] - c[2]) + Abs(c[2] - c[1]) + Abs(c[3] - c[1]) < color_variance}
    ELSE {p \in Pix : gray[p] > white_threshold}

\* white_mask of lines 93-111.
WhiteMask ==
    IF MultiChannel
    THEN {p \in Pix :
            LET c == sketch.px[p]
            IN  /\ c[3] > white_threshold /\ c[2] > white_threshold /\ c[1] > white_threshold
                /\ Abs(c[3] - c[2]) < color_variance
                /\ Abs(c[2] - c[1]) < color_variance
                /\ Abs(c[3] - c[1]) < color_variance}
    ELSE {p \in Pix : gray[p] > white_threshold}

\* Steps 2 and 3, lines 92-123: white pixels that no dilated line covers.
FindWhiteRegions ==
    /\ pc = "white"
    /\ white_areas' = WhiteMask
    /\ white_no_lines' = WhiteMask \ lines_dilated
    /\ pc' = "filter"
    /\ UNCHANGED <<server, inputs, callers, TARGET_GRAY, gray, lines, lines_dilated, garment_mask,
                   element_regions, result, ret>>

\* cv2.connectedComponents / cv2.connectedComponentsWithStats label 8-connected
\* components, scipy.ndimage.label 4-connected ones.
Connectivity == IF OPENCV_AVAILABLE THEN 8 ELSE 4

KeptRegionsClearOfOutline(mask, conn) ==
    {C \in Components(mask, conn) :
        /\ Cardinality(C) > min_area
        /\ ScipyDilate(C, SquareKernel(5), 1) \cap border_mask = {}}

\* The size test of Step 5 letting a region of exactly min_area pixels through.
KeptRegionsFromMinArea(mask, conn) ==
    {C \in Components(mask, conn) : Cardinality(C) >= min_area /\ C \cap border_mask = {}}

\* Steps 4 and 5, lines 119-161: the regions larger than min_area that have no
\* pixel on the border.
KeptRegions(mask, conn) ==
    {C \in Components(mask, conn) : Cardinality(C) > min_area /\ C \cap border_mask = {}}

FilterRegions ==
    /\ pc = "filter"
    /\ garment_mask' = UNION KeptRegions(white_no_lines, Connectivity)
    /\ pc' = "skin"
    /\ UNCHANGED <<server, inputs, callers, TARGET_GRAY, gray, lines, lines_dilated, white_areas,
                   white_no_lines, element_regions, result, ret>>

\* Lines 174-175 and 198-199 for a protection level in tenths:
\* max(3, int(5 * skin_protection)) and max(1, int(2 * skin_protection)).
KernelSizeFor(protection) == Max(3, (5 * protection) \div 10)

IterationsFor(protection) == Max(1, (2 * protection) \div 10)

kernel_size == KernelSizeFor(skin_protection)

iterations == IterationsFor(skin_protection)

\* The pixels the skin test of the path in use classifies as skin.
SkinPixels ==
    IF OPENCV_AVAILABLE THEN {p \in Pix : CvSkin(sketch.px[p])}
    ELSE {p \in Pix : PilSkin(sketch.px[p])}

\* The dilated skin mask (lines 177 and 200) for a protection level.
SkinZoneFor(protection) ==
    IF OPENCV_AVAILABLE
    THEN CvDilate(SkinPixels, EllipseKernel(KernelSizeFor(protection)),
                  IterationsFor(protection))
    ELSE ScipyDilate(SkinPixels, SquareKernel(KernelSizeFor(protection)),
                     IterationsFor(protection))

SkinZone == SkinZoneFor(skin_protection)

\* Step 6, lines 163-204: only for a multi-channel image.
ExcludeSkin ==
    /\ pc = "skin"
    /\ garment_mask' = IF MultiChannel THEN garment_mask \ SkinZone ELSE garment_mask
    /\ pc' = "cleanup"
    /\ UNCHANGED <<server, inputs, callers, TARGET_GRAY, gray, lines, lines_dilated, white_areas,
                   white_no_lines, element_regions, result, ret>>

\* Step 7 without its second half: the closed mask, small components included.
CleanedMaskKeepingSpecks(mask) ==
    IF OPENCV_AVAILABLE THEN CvClose(mask) ELSE ScipyClose(mask)

\* Step 7, lines 206-227: close with a 5x5 element, then drop the components
\* smaller than min_area.
CleanedMask(mask) ==
    LET closed == IF OPENCV_AVAILABLE THEN CvClose(mask) ELSE ScipyClose(mask)
    IN  UNION {C \in Components(closed, Connectivity) : ~(Cardinality(C) < min_area)}

\* Step 7 switching the module over to the fallback path as it finishes.
CleanMaskDisablingOpenCV ==
    /\ pc = "cleanup"
    /\ garment_mask' = CleanedMask(garment_mask)
    /\ OPENCV_AVAILABLE' = FALSE
    /\ pc' = "elements"
    /\ UNCHANGED <<server, numpy_checks_range, sketch, target_color, white_threshold, color_variance,
                   skin_protection, element_colors, callers, TARGET_GRAY, gray, lines,
                   lines_dilated, white_areas, white_no_lines, element_regions, result, ret>>

CleanMask ==
    /\ pc = "cleanup"
    /\ garment_mask' = CleanedMask(garment_mask)
    /\ pc' = "elements"
    /\ UNCHANGED <<server, inputs, callers, TARGET_GRAY, gray, lines, lines_dilated, white_areas,
                   white_no_lines, element_regions, result, ret>>

\* element_colors and any(element_colors.values())
AnyElementColor == \E n \in DOMAIN element_colors : element_colors[n] # <<>>

\* Step 8, lines 229-235.
DetectElements ==
    /\ pc = "elements"
    /\ element_regions' = IF AnyElementColor
                          THEN DetectGarmentElements(garment_mask, OPENCV_AVAILABLE)
                          ELSE [n \in {} |-> {}]
    /\ pc' = "color"
    /\ UNCHANGED <<server, inputs, callers, TARGET_GRAY, gray, lines, lines_dilated, white_areas,
                   white_no_lines, garment_mask, result, ret>>

\* Lines 249-253: the colour a masked pixel is blended from.
PixelTarget(p) ==
    IF DOMAIN element_colors # {} /\ DOMAIN element_regions # {}
    THEN GetPixelColor(p, element_regions, element_colors, TARGET_GRAY)
    ELSE TARGET_GRAY

\* Lines 255-272: the value assigned to result[y, x].
PixelValue(p) ==
    LET t == PixelTarget(p)
    IN  IF MultiChannel
        THEN <<BlendChannel(t[1], gray[p]), BlendChannel(t[2], gray[p]),
               BlendChannel(t[3], gray[p])>>
        ELSE <<BlendGray(t, gray[p])>>

OutOfRange(v) == \E i \in 1 .. Len(v) : v[i] < 0 \/ v[i] > 255

\* The exception the assignment result[y, x] = value raises, or "" when it
\* succeeds.  Three values do not fit a four-channel pixel; a value outside
\* 0..255 raises OverflowError on a NumPy build that checks (strict) and wraps
\* modulo 256 on one that does not.
WriteError(p, strict) ==
    IF strict /\ OutOfRange(PixelValue(p)) THEN "OverflowError"
    ELSE IF MultiChannel /\ Channels # 3 THEN "ValueError"
    ELSE ""

PaintedIgnoringMask(stop) ==
    [p \in Pix |->
        IF p < stop
        THEN [i \in 1 .. Len(PixelValue(p)) |-> PixelValue(p)[i] % 256]
        ELSE result[p]]

\* result after the loop of lines 245-272 has written every masked pixel before
\* pixel `stop` (N: the loop ran to its end).
Painted(stop) ==
    [p \in Pix |->
        IF p \in garment_mask /\ p < stop
        THEN [i \in 1 .. Len(PixelValue(p)) |-> PixelValue(p)[i] % 256]
        ELSE result[p]]

\* The dict of lines 280-287.
EmptyMaskAsFailure(buf, mask) ==
    IF mask = {}
    THEN [success |-> FALSE, error |-> "No garment regions detected",
          colorized_image |-> sketch]
    ELSE [success |-> TRUE,
          colorized_image |-> [mode |-> sketch.mode, px |-> buf],
          clothing_areas_detected |-> Cardinality(mask)]

SuccessResult(buf, mask) ==
    [success |-> TRUE,
     colorized_image |-> [mode |-> sketch.mode, px |-> buf],
     clothing_areas_detected |-> Cardinality(mask)]

\* The dict of the handler, lines 289-295: the caller's own image.
FailureWithWorkingCopy(error, buf) ==
    [success |-> FALSE, error |-> error,
     colorized_image |-> [mode |-> sketch.mode, px |-> buf]]

FailureResult(error, buf) ==
    [success |-> FALSE, error |-> error, colorized_image |-> sketch]

\* Step 9 painting the caller's image itself instead of a copy of it.
ColorAndReturnInPlace ==
    /\ pc = "color"
    /\ \A p \in garment_mask : WriteError(p, numpy_checks_range) = ""
    /\ result' = Painted(N)
    /\ sketch' = [sketch EXCEPT !.px = result']
    /\ ret' = SuccessResult(result', garment_mask)
    /\ pc' = "done"
    /\ UNCHANGED <<server, OPENCV_AVAILABLE, numpy_checks_range, target_color, white_threshold,
                   color_variance, skin_protection, element_colors, callers, TARGET_GRAY,
                   gray, lines, lines_dilated, white_areas, white_no_lines, garment_mask,
                   element_regions>>

\* Step 9 and the return, lines 237-287.
ColorAndReturn ==
    /\ pc = "color"
    /\ \A p \in garment_mask : WriteError(p, numpy_checks_range) = ""
    /\ result' = Painted(N)
    /\ ret' = SuccessResult(result', garment_mask)
    /\ pc' = "done"
    /\ UNCHANGED <<server, inputs, callers, TARGET_GRAY, gray, lines, lines_dilated, white_areas,
                   white_no_lines, garment_mask, element_regions>>

\* Step 9 raising at the first pixel whose assignment fails, and the handler of
\* lines 289-295.
ColorRaises ==
    /\ pc = "color"
    /\ \E p \in garment_mask : WriteError(p, numpy_checks_range) # ""
    /\ LET first == CHOOSE p \in garment_mask :
                        /\ WriteError(p, numpy_checks_range) # ""
                        /\ \A q \in garment_mask :
                               WriteError(q, numpy_checks_range) # "" => p <= q
       IN  /\ result' = Painted(first)
           /\ ret' = FailureResult(WriteError(first, numpy_checks_range), result')
    /\ pc' = "done"
    /\ UNCHANGED <<server, inputs, callers, TARGET_GRAY, gray, lines, lines_dilated, white_areas,
                   white_no_lines, garment_mask, element_regions>>

Next ==
    \/ ParseColor
    \/ DetectLines
    \/ FindWhiteRegions
    \/ FilterRegions
    \/ ExcludeSkin
    \/ CleanMask
    \/ DetectElements
    \/ ColorAndReturn
    \/ ColorRaises

Spec == Init /\ [][Next]_vars

\* ------------------------------------------------------- repeated calls
\* The same call made where the other of the two paths is in use (cv2 installed
\* or not, lines 23-28), the caller keeping what the first call returned.  The
\* locals are whatever the first call left: each is assigned before it is read.
CallOnOtherPath ==
    /\ pc = "done" /\ earlier = NOT_RETURNED
    /\ earlier' = ret
    /\ OPENCV_AVAILABLE' = ~OPENCV_AVAILABLE
    /\ pc' = "parse"
    /\ ret' = NOT_RETURNED
    /\ UNCHANGED <<server, numpy_checks_range, sketch, target_color, white_threshold,
                   color_variance, skin_protection, element_colors, locals, other>>

\* The caller passes the image a successful call returned to a second call with
\* the same target colour and thresholds.
Reapply ==
    /\ pc = "done" /\ earlier = NOT_RETURNED /\ ret.success
    /\ earlier' = ret
    /\ sketch' = ret.colorized_image
    /\ pc' = "parse"
    /\ ret' = NOT_RETURNED
    /\ UNCHANGED <<server, OPENCV_AVAILABLE, numpy_checks_range, target_color, white_threshold,
                   color_variance, skin_protection, element_colors, locals, other>>

\* The caller makes the same call a second time, in the same process.
CallAgain ==
    /\ pc = "done" /\ earlier = NOT_RETURNED
    /\ earlier' = ret
    /\ pc' = "parse"
    /\ ret' = NOT_RETURNED
    /\ UNCHANGED <<server, inputs, locals, other>>

\* ---------------------------------------------------- concurrent calls
\* Everything one invocation owns: its arguments, its position, its locals, the
\* dict it returns and what its caller remembers.  OPENCV_AVAILABLE and the
\* installed NumPy belong to the process.
Frame ==
    [sketch |-> sketch,
     target_color |-> target_color,
     white_threshold |-> white_threshold,
     color_variance |-> color_variance,
     skin_protection |-> skin_protection,
     element_colors |-> element_colors,
     pc |-> pc,
     TARGET_GRAY |-> TARGET_GRAY,
     gray |-> gray,
     lines |-> lines,
     lines_dilated |-> lines_dilated,
     white_areas |-> white_areas,
     white_no_lines |-> white_no_lines,
     garment_mask |-> garment_mask,
     element_regions |-> element_regions,
     result |-> result,
     ret |-> ret,
     earlier |-> earlier]

\* The calls made side by side: an RGB and a grayscale sketch, a four-channel
\* one (its pixel write raises) and a call with per-element colours.
ConcurrentCalls ==
    { [sketch |-> Render(ScenarioB, "RGB"),
       target_color |-> <<"#", "F", "F", "0", "0", "0", "0">>,
       element_colors |-> NO_ELEMENT_COLORS],
      [sketch |-> Render(ScenarioA, "L"),
       target_color |-> <<>>,
       element_colors |-> NO_ELEMENT_COLORS],
      [sketch |-> Render(ScenarioB, "RGBA"),
       target_color |-> <<"#", "F", "A", "F", "A", "F", "A">>,
       element_colors |-> NO_ELEMENT_COLORS],
      [sketch |-> Render(ScenarioB, "RGB"),
       target_color |-> <<>>,
       element_colors |-> [n \in {"straps", "trim"} |->
                              IF n = "straps" THEN BLUE_HEX ELSE GREEN_HEX]] }

InitConcurrent ==
    /\ OPENCV_AVAILABLE \in BOOLEAN
    /\ numpy_checks_range = FALSE
    /\ white_threshold = 245
    /\ color_variance = 30
    /\ skin_protection = 3
    /\ \E c \in ConcurrentCalls :
          /\ sketch = c.sketch
          /\ target_color = c.target_color
          /\ element_colors = c.element_colors
    /\ InitLocals
    /\ InitServerIdle

\* An invocation about to start on call c.
StartFrame(c) ==
    [Frame EXCEPT !.sketch = c.sketch, !.target_color = c.target_color,
                  !.element_colors = c.element_colors, !.pc = "parse",
                  !.ret = NOT_RETURNED, !.earlier = NOT_RETURNED]

\* The caller, having the result of the call run alone, makes the call again
\* while a second invocation starts in the same process.
CallBeside ==
    /\ pc = "done" /\ earlier = NOT_RETURNED /\ other = NO_OTHER
    /\ earlier' = ret
    /\ pc' = "parse"
    /\ ret' = NOT_RETURNED
    /\ \E c \in ConcurrentCalls : other' = [running |-> TRUE, frame |-> StartFrame(c)]
    /\ UNCHANGED <<server, inputs, locals>>

\* The scheduler suspends the running invocation and resumes the other one.
Switch ==
    /\ other # NO_OTHER
    /\ other' = [running |-> TRUE, frame |-> Frame]
    /\ sketch' = other.frame.sketch
    /\ target_color' = other.frame.target_color
    /\ white_threshold' = other.frame.white_threshold
    /\ color_variance' = other.frame.color_variance
    /\ skin_protection' = other.frame.skin_protection
    /\ element_colors' = other.frame.element_colors
    /\ pc' = other.frame.pc
    /\ TARGET_GRAY' = other.frame.TARGET_GRAY
    /\ gray' = other.frame.gray
    /\ lines' = other.frame.lines
    /\ lines_dilated' = other.frame.lines_dilated
    /\ white_areas' = other.frame.white_areas
    /\ white_no_lines' = other.frame.white_no_lines
    /\ garment_mask' = other.frame.garment_mask
    /\ element_regions' = other.frame.element_regions
    /\ result' = other.frame.result
    /\ ret' = other.frame.ret
    /\ earlier' = other.frame.earlier
    /\ UNCHANGED <<server, OPENCV_AVAILABLE, numpy_checks_range>>

NextConcurrent == Next \/ CallBeside \/ Switch

NextBothPaths == Next \/ CallOnOtherPath

NextRepeat == Next \/ CallAgain

NextReapply == Next \/ Reapply

SpecBothPaths == Init /\ [][NextBothPaths]_vars

SpecReapply == Init /\ [][NextReapply]_vars

SpecRepeat == Init /\ [][NextRepeat]_vars

SpecConcurrent == InitConcurrent /\ [][NextConcurrent]_vars

\* ------------------------------------ SketchColorizer.colorize_sketch
\* FIXED_PRODUCTION_SERVER.py, lines 298-404: colorize_sketch, _ai_colorization
\* and the _basic_colorization that calls universal_garment_colorizer.

\* Everything universal_garment_colorizer owns.
pipeline == <<inputs, pc, locals, ret, callers>>

HF_KEY == <<"h", "f", "_", "k">>

OTHER_KEY == <<"s", "k", "_", "k">>

\* self.hf_api_key and self.hf_api_key.startswith('hf_')
UsesAi(key) == Len(key) >= 3 /\ SubSeq(key, 1, 3) = <<"h", "f", "_">>

\* sketch.convert('RGB') of lines 306-307: a grayscale value on three channels,
\* the alpha channel dropped.
ConvertRGB(img) ==
    IF img.mode = "RGB" THEN img
    ELSE [mode |-> "RGB",
          px |-> [p \in Pix |->
                     IF img.mode = "L" THEN <<img.px[p][1], img.px[p][1], img.px[p][1]>>
                     ELSE SubSeq(img.px[p], 1, 3)]]

RED_HEX == <<"#", "F", "F", "0", "0", "0", "0">>

\* The calls of colorize_sketch explored: default and non-default thresholds,
\* with and without element colours, an RGB and a grayscale sketch.
Requests ==
    { [made |-> TRUE, sketch |-> Render(d, mode), target_color |-> tc,
       white_threshold |-> th[1], color_variance |-> th[2], skin_protection |-> th[3],
       element_colors |-> ec] :
        d \in {ScenarioB}, mode \in {"RGB", "L"},
        tc \in {<<>>, RED_HEX, <<"r", "g", "b", "(", "3", "0", "0", ",", "0", ",", "0", ")">>},
        th \in {<<245, 30, 3>>, <<200, 10, 8>>},
        ec \in {NO_ELEMENT_COLORS,
                [n \in {"straps", "trim"} |-> IF n = "straps" THEN BLUE_HEX ELSE GREEN_HEX]} }

\* The names the fallback calls of lines 381 and 385 read.
FallbackArgNames ==
    {"sketch", "style", "target_color", "white_threshold", "color_variance", "skin_protection"}

\* _ai_colorization with the thresholds bound to the defaults of the signatures.
AiColorizationScopeWithDefaults ==
    [sketch |-> ConvertRGB(request.sketch),
     style |-> "fashion",
     target_color |-> request.target_color,
     element_colors |-> request.element_colors,
     white_threshold |-> 245,
     color_variance |-> 30,
     skin_protection |-> 3]

\* The names bound inside _ai_colorization, line 327: its parameters (self
\* aside).  The module defines no global white_threshold, color_variance or
\* skin_protection.
AiColorizationScope ==
    [sketch |-> ConvertRGB(request.sketch),
     style |-> "fashion",
     target_color |-> request.target_color,
     element_colors |-> request.element_colors]

\* The names bound inside colorize_sketch, lines 298-300, after lines 306-313.
ColorizeSketchScope ==
    [sketch |-> ConvertRGB(request.sketch),
     style |-> "fashion",
     target_color |-> request.target_color,
     white_threshold |-> request.white_threshold,
     color_variance |-> request.color_variance,
     skin_protection |-> request.skin_protection,
     element_colors |-> request.element_colors]

\* The arguments of the calls of lines 321 and 325.
CallerArgs ==
    [made |-> TRUE,
     sketch |-> ColorizeSketchScope.sketch,
     target_color |-> ColorizeSketchScope.target_color,
     white_threshold |-> ColorizeSketchScope.white_threshold,
     color_variance |-> ColorizeSketchScope.color_variance,
     skin_protection |-> ColorizeSketchScope.skin_protection,
     element_colors |-> ColorizeSketchScope.element_colors]

\* The arguments of the calls of lines 381 and 385: six positional arguments,
\* element_colors left to its default None.
FallbackArgs(scope) ==
    [made |-> TRUE,
     sketch |-> scope.sketch,
     target_color |-> scope.target_color,
     white_threshold |-> scope.white_threshold,
     color_variance |-> scope.color_variance,
     skin_protection |-> scope.skin_protection,
     element_colors |-> NO_ELEMENT_COLORS]

\* universal_garment_colorizer has not been called.
InitPipelineIdle ==
    /\ sketch = Render(ScenarioB, "RGB")
    /\ target_color = <<>>
    /\ white_threshold = 245
    /\ color_variance = 30
    /\ skin_protection = 3
    /\ element_colors = NO_ELEMENT_COLORS
    /\ pc = "not_called"
    /\ TARGET_GRAY = DEFAULT_GRAY
    /\ gray = [p \in Pix |-> 0]
    /\ lines = {}
    /\ lines_dilated = {}
    /\ white_areas = {}
    /\ white_no_lines = {}
    /\ garment_mask = {}
    /\ element_regions = [n \in {} |-> {}]
    /\ result = sketch.px
    /\ ret = NOT_RETURNED
    /\ earlier = NOT_RETURNED
    /\ other = NO_OTHER

\* A call of colorize_sketch is about to start.
InitFallback ==
    /\ OPENCV_AVAILABLE \in BOOLEAN
    /\ numpy_checks_range = TRUE
    /\ InitPipelineIdle
    /\ server_pc = "colorize_sketch"
    /\ server_ret = NOT_RETURNED
    /\ hf_api_key \in {HF_KEY, OTHER_KEY, <<>>}
    /\ request \in Requests
    /\ response = "none"
    /\ exception = ""
    /\ call_args = NO_REQUEST
    /\ universal_calls = 0
    /\ ai_calls = 0
    /\ garment_analysis = [garment_type |-> <<>>, category |-> <<>>]
    /\ binary = {}
    /\ skin_mask = {}
    /\ intimate_mask = {}
    /\ clothing_mask = {}

contour_locals == <<garment_analysis, binary, skin_mask, intimate_mask, clothing_mask>>

\* Lines 304-321: convert, then take the AI path when the key is an hf_ key and
\* the basic one otherwise.  (No image of the model is larger than 2048.)
ColorizeSketch ==
    /\ server_pc = "colorize_sketch"
    /\ IF UsesAi(hf_api_key)
       THEN /\ server_pc' = "_ai_colorization"
            /\ ai_calls' = ai_calls + 1
            /\ call_args' = call_args
       ELSE /\ server_pc' = "_basic_colorization"
            /\ call_args' = CallerArgs
            /\ ai_calls' = ai_calls
    /\ UNCHANGED <<pipeline, server_ret, hf_api_key, request, response, exception,
                   universal_calls, contour_locals>>

\* Lines 329-381: the request returns 200 and the image is returned, or it
\* returns another status and line 381 is evaluated, or it raises.  Reading a
\* name that is not bound raises NameError inside the try block.
AiRequest ==
    /\ server_pc = "_ai_colorization"
    /\ \E outcome \in {"200", "503", "raises"} :
          /\ response' = outcome
          /\ CASE outcome = "200" ->
                    /\ server_ret' = [success |-> TRUE, method |-> "huggingface_controlnet"]
                    /\ server_pc' = "returned"
                    /\ UNCHANGED <<exception, call_args>>
               [] outcome = "503" /\ FallbackArgNames \subseteq DOMAIN AiColorizationScope ->
                    /\ call_args' = FallbackArgs(AiColorizationScope)
                    /\ server_pc' = "_basic_colorization"
                    /\ UNCHANGED <<exception, server_ret>>
               [] outcome = "503" /\ ~(FallbackArgNames \subseteq DOMAIN AiColorizationScope) ->
                    /\ exception' = "NameError"
                    /\ server_pc' = "except_383"
                    /\ UNCHANGED <<call_args, server_ret>>
               [] OTHER ->
                    /\ exception' = "RequestException"
                    /\ server_pc' = "except_383"
                    /\ UNCHANGED <<call_args, server_ret>>
    /\ UNCHANGED <<pipeline, hf_api_key, request, universal_calls, ai_calls, contour_locals>>

\* Lines 383-385: the handler evaluates the same call; a NameError raised in
\* the handler leaves _ai_colorization.
AiExcept ==
    /\ server_pc = "except_383"
    /\ IF FallbackArgNames \subseteq DOMAIN AiColorizationScope
       THEN /\ call_args' = FallbackArgs(AiColorizationScope)
            /\ exception' = ""
            /\ server_pc' = "_basic_colorization"
       ELSE /\ exception' = "NameError"
            /\ server_pc' = "except_323"
            /\ call_args' = call_args
    /\ UNCHANGED <<pipeline, server_ret, hf_api_key, request, response, universal_calls,
                   ai_calls, contour_locals>>

\* Lines 323-325: the handler of colorize_sketch calls _basic_colorization with
\* the arguments of colorize_sketch.
ColorizeExcept ==
    /\ server_pc = "except_323"
    /\ call_args' = CallerArgs
    /\ exception' = ""
    /\ server_pc' = "_basic_colorization"
    /\ UNCHANGED <<pipeline, server_ret, hf_api_key, request, response, universal_calls,
                   ai_calls, contour_locals>>

\* Lines 387-404: _basic_colorization calls universal_garment_colorizer.
BasicColorization ==
    /\ server_pc = "_basic_colorization"
    /\ sketch' = call_args.sketch
    /\ target_color' = call_args.target_color
    /\ white_threshold' = call_args.white_threshold
    /\ color_variance' = call_args.color_variance
    /\ skin_protection' = call_args.skin_protection
    /\ element_colors' = call_args.element_colors
    /\ pc' = "parse"
    /\ universal_calls' = universal_calls + 1
    /\ server_pc' = "universal_garment_colorizer"
    /\ UNCHANGED <<OPENCV_AVAILABLE, numpy_checks_range, locals, ret, callers, server_ret,
                   hf_api_key, request, response, exception, call_args, ai_calls,
                   contour_locals>>

\* The dict of universal_garment_colorizer is returned up to the caller of
\* colorize_sketch.
ReturnBasic ==
    /\ server_pc = "universal_garment_colorizer" /\ pc = "done"
    /\ server_ret' = ret
    /\ server_pc' = "returned"
    /\ UNCHANGED <<pipeline, hf_api_key, request, response, exception, call_args,
                   universal_calls, ai_calls, contour_locals>>

NextFallback ==
    \/ ColorizeSketch
    \/ AiRequest
    \/ AiExcept
    \/ ColorizeExcept
    \/ BasicColorization
    \/ Next
    \/ ReturnBasic

ServerPositions ==
    {"colorize_sketch", "_ai_colorization", "except_383", "except_323",
     "_basic_colorization", "universal_garment_colorizer", "returned"}

PipelinePositions ==
    {"not_called", "parse", "lines", "white", "filter", "skin", "cleanup", "elements",
     "color", "done"}

\* The call moves on to another position while it has not returned.
Proceeds ==
    /\ server_pc # "returned"
    /\ \E s \in ServerPositions, q \in PipelinePositions :
          /\ <<s, q>> # <<server_pc, pc>>
          /\ server_pc' = s
          /\ pc' = q

\* colorize_sketch is one synchronous call: the interpreter goes on executing
\* it until it returns; the HuggingFace request carries a timeout (line 364) and
\* every loop of the pipeline is over a finite array.
SpecFallback == InitFallback /\ [][NextFallback]_vars /\ WF_<<server_pc, pc>>(Proceeds)

\* ------------------------------- the contour-based _basic_colorization
\* FIXED_PRODUCTION_SERVER_backup_20250907_173429.py, lines 795-1019, where cv2
\* and scipy are installed: from the contour mask `binary` and the skin mask to
\* the mask that is recolored.  Its arrays are height x width.
height == 10

width == 14

Image == 0 .. (height * width - 1)

\* The pixel at offset d = <<dy, dx>> of p in a height x width array, or -1.
Shift(p, d) ==
    LET y == (p \div width) + d[1]
        x == (p % width) + d[2]
    IN  IF y >= 0 /\ y < height /\ x >= 0 /\ x < width THEN y * width + x ELSE -1

Box(top, left, bottom, right) ==
    {p \in Image : /\ p \div width >= top /\ p \div width <= bottom
                   /\ p % width >= left /\ p % width <= right}

\* scipy.ndimage with border_value = 0 and a symmetric structure.
binary_dilation(S, K) == UNION {{Shift(q, d) : d \in K} : q \in S} \ {-1}

binary_erosion(S, K) == {p \in S : \A d \in K : Shift(p, d) \in S}

binary_opening(S, K) == binary_dilation(binary_erosion(S, K), K)

binary_closing(S, K) == binary_erosion(binary_dilation(S, K), K)

Adjacent(p, conn) ==
    LET D == IF conn = 8
             THEN SquareKernel(3) \ {<<0, 0>>}
             ELSE {<<-1, 0>>, <<1, 0>>, <<0, -1>>, <<0, 1>>}
    IN  {Shift(p, d) : d \in D} \ {-1}

RECURSIVE Grow(_, _, _, _)
Grow(S, conn, frontier, seen) ==
    IF frontier = {} THEN seen
    ELSE LET nxt == (UNION {Adjacent(c, conn) : c \in frontier} \cap S) \ seen
         IN  Grow(S, conn, nxt, seen \cup nxt)

\* The connected components of S: scipy.ndimage.label (conn = 4), the outer
\* contours of cv2.findContours (conn = 8).
RECURSIVE label(_, _)
label(S, conn) ==
    IF S = {} THEN {}
    ELSE LET p == CHOOSE q \in S : \A r \in S : q <= r
             C == Grow(S, conn, {p}, {p})
         IN  {C} \cup label(S \ C, conn)

OnEdge(p) ==
    \/ p \div width = 0 \/ p \div width = height - 1
    \/ p % width = 0 \/ p % width = width - 1

\* scipy.ndimage.binary_fill_holes: the background that no 4-connected path
\* links to the edge of the array is set.
binary_fill_holes(S) ==
    LET outside == {p \in Image \ S : OnEdge(p)}
    IN  Image \ Grow(Image \ S, 4, outside, outside)

\* cv2.fillPoly of the outer contour of component C: C and what it encloses.
fillPoly(C) == binary_fill_holes(C)

\* Twice cv2.contourArea of the outer contour of C: the polygon through the
\* centres of the border pixels, by Pick's formula (no area for a shape one
\* pixel thin).
contourArea2(C) ==
    LET F == fillPoly(C)
        B == {p \in F : \E d \in {<<-1, 0>>, <<1, 0>>, <<0, -1>>, <<0, 1>>} : Shift(p, d) \notin F}
    IN  Max(0, 2 * Cardinality(F) - Cardinality(B) - 2)

\* Line 839: area > 500, at the scale of the model's arrays.
MIN_CONTOUR_AREA == 4

\* 'bodysuit' in text.lower(), a text being a sequence of words.
Mentions(word, text) ==
    \E i \in 1 .. Len(text) : text[i] = word \/ (text[i] = "Bodysuit" /\ word = "bodysuit")

\* Line 797.
IsBodysuit(ga) ==
    \/ Mentions("bodysuit", ga.garment_type)
    \/ Mentions("bodysuit", ga.category)
    \/ Mentions("corset", ga.garment_type)

\* Lines 799-814: the zone set in intimate_mask.
IntimateZone ==
    LET center_x == width \div 2
        bottom_y == (height * 65) \div 100
        intimate_width == (width * 15) \div 100
        intimate_height == (height * 20) \div 100
        x_start == Max(0, center_x - (intimate_width \div 2))
        x_end == Min(width, center_x + (intimate_width \div 2))
        y_start == Max(0, bottom_y)
        y_end == Min(height, bottom_y + intimate_height)
    IN  Box(y_start, x_start, y_end - 1, x_end - 1)

\* Lines 825-842: every contour of area > 500 is filled; a mask without a
\* contour is left as it is.  A hole's contour lies inside its component's
\* outer contour and has the smaller area.
RefinedMask(mask) ==
    IF mask = {} THEN mask
    ELSE UNION {fillPoly(C) : C \in {D \in label(mask, 8) :
                                        contourArea2(D) > 2 * MIN_CONTOUR_AREA}}

\* Lines 929-942: of the 4-connected regions sorted by (size, label) in
\* reverse, those among the first three that hold over 0.5% of the image.
MainRegions(mask) ==
    LET regions == label(mask, 4)
        First(C) == CHOOSE q \in C : \A r \in C : q <= r
        Before(D, C) ==
            \/ Cardinality(D) > Cardinality(C)
            \/ Cardinality(D) = Cardinality(C) /\ First(D) > First(C)
    IN  UNION {C \in regions :
                  /\ Cardinality({D \in regions : Before(D, C)}) < 3
                  /\ Cardinality(C) * 1000 > height * width * 5}

\* Lines 955-958.
CleanedClothingMask(mask) ==
    binary_fill_holes(binary_closing(binary_opening(mask, SquareKernel(3)), SquareKernel(7)))

\* garment_info: what the analysis of lines 401-588 produced, line 581 being
\* its fallback.
GarmentAnalyses ==
    { [garment_type |-> <<"corset", "bodysuit">>, category |-> <<"bodysuit">>],
      [garment_type |-> <<"Bodysuit">>, category |-> <<"unknown">>],
      [garment_type |-> <<"corset">>, category |-> <<"lingerie">>],
      [garment_type |-> <<"wrap", "dress">>, category |-> <<"dress">>] }

\* binary as lines 688-728 leave it: one filled rectangular contour, with the
\* zone inside it, cutting its lower side, or below it.
ContourBoxes ==
    {Box(1, 2, height - 2, width - 3), Box(1, 2, (height * 65) \div 100, width - 3),
     Box(1, 2, 4, width - 3)}

SkinMasks == {{}, Box(2, 4, 3, 5)}

InitContour ==
    /\ OPENCV_AVAILABLE = TRUE
    /\ numpy_checks_range = FALSE
    /\ InitPipelineIdle
    /\ server_pc = "exclude"
    /\ server_ret = NOT_RETURNED
    /\ hf_api_key = <<>>
    /\ request = NO_REQUEST
    /\ response = "none"
    /\ exception = ""
    /\ call_args = NO_REQUEST
    /\ universal_calls = 0
    /\ ai_calls = 0
    /\ garment_analysis \in GarmentAnalyses
    /\ binary \in ContourBoxes
    /\ skin_mask \in SkinMasks
    /\ intimate_mask = {}
    /\ clothing_mask = {}

fallback_state == <<hf_api_key, request, response, exception, call_args, universal_calls, ai_calls>>

\* Lines 795-818.
ExcludeZones ==
    /\ server_pc = "exclude"
    /\ intimate_mask' = IF IsBodysuit(garment_analysis) THEN IntimateZone ELSE {}
    /\ clothing_mask' = (binary \ skin_mask) \ intimate_mask'
    /\ server_pc' = "refine"
    /\ UNCHANGED <<pipeline, fallback_state, server_ret, garment_analysis, binary, skin_mask>>

\* Lines 820-843.
RefineContours ==
    /\ server_pc = "refine"
    /\ clothing_mask' = RefinedMask(clothing_mask)
    /\ server_pc' = "regions"
    /\ UNCHANGED <<pipeline, fallback_state, server_ret, garment_analysis, binary, skin_mask,
                   intimate_mask>>

\* Lines 928-944.
KeepMainRegions ==
    /\ server_pc = "regions"
    /\ clothing_mask' = MainRegions(clothing_mask)
    /\ server_pc' = "cleanup"
    /\ UNCHANGED <<pipeline, fallback_state, server_ret, garment_analysis, binary, skin_mask,
                   intimate_mask>>

\* Lines 952-960.
CleanUpMask ==
    /\ server_pc = "cleanup"
    /\ clothing_mask' = CleanedClothingMask(clothing_mask)
    /\ server_pc' = "recolor"
    /\ UNCHANGED <<pipeline, fallback_state, server_ret, garment_analysis, binary, skin_mask,
                   intimate_mask>>

\* Lines 961-1019: hue and saturation are written at the pixels of
\* clothing_mask, and the dict is returned.
RecolorAndReturn ==
    /\ server_pc = "recolor"
    /\ server_ret' = [success |-> TRUE, method |-> "ai_clothing_vision",
                      recolored |-> clothing_mask,
                      clothing_areas_detected |-> Cardinality(clothing_mask)]
    /\ server_pc' = "returned"
    /\ UNCHANGED <<pipeline, fallback_state, contour_locals>>

NextContour ==
    \/ ExcludeZones
    \/ RefineContours
    \/ KeepMainRegions
    \/ CleanUpMask
    \/ RecolorAndReturn

SpecContour == InitContour /\ [][NextContour]_vars

\* ------------------------------------------------------------ properties
\* The garment mask is final once Step 7 has run.
FinalMaskReady == pc \in {"elements", "color", "done"}

Returned == pc = "done"

\* The pixels of the connected candidate regions (white and not dilated line)
\* that have a pixel on the image border.
BorderTouchingCandidates ==
    UNION {C \in Components(white_no_lines, Connectivity) : C \cap border_mask # {}}

\* C1: the final garment mask holds no pixel of a candidate region that touches
\* the image border, and no pixel of the border rows and columns.
C1_BorderExcludedFromFinalMask ==
    FinalMaskReady =>
        /\ garment_mask \cap BorderTouchingCandidates = {}
        /\ garment_mask \cap border_mask = {}

\* C2: when the final garment mask is empty the call returns success with
\* clothing_areas_detected = 0 and an image identical to the input.
C2_EmptyMaskIsSuccess ==
    (Returned /\ garment_mask = {}) =>
        /\ ret.success
        /\ ret.clothing_areas_detected = 0
        /\ ret.colorized_image = sketch

C2_Witness == Returned /\ garment_mask = {} /\ white_no_lines # {}

\* C3: a call that raised returns success = False with an error message and the
\* caller's own image, also when the working copy was already partly recolored.
C3_FailureReturnsOriginal ==
    /\ (Returned /\ ~ret.success) =>
           /\ ret.error # ""
           /\ ret.colorized_image = sketch
    /\ (Returned /\ ret.success) =>
           /\ ret.colorized_image.px = Painted(N)
           /\ ~(Channels = 4 /\ garment_mask # {})

C3_Witness == Returned /\ ~ret.success /\ result # sketch.px

\* C4: no line pixel (gray < 100) is in the final garment mask, and a successful
\* call leaves every line pixel at its input value.
C4_LinePixelsPreserved ==
    /\ FinalMaskReady => garment_mask \cap lines = {}
    /\ (Returned /\ ret.success) =>
           \A p \in lines : ret.colorized_image.px[p] = sketch.px[p]

\* C5: for a multi-channel input no pixel the skin test classifies as skin is
\* in the final garment mask.
C5_SkinExcludedFromFinalMask ==
    (FinalMaskReady /\ MultiChannel) => garment_mask \cap SkinPixels = {}

\* C6: a successful call changes no pixel outside the final garment mask, and no
\* step writes to the caller's image.
C6_FrameOutsideMask ==
    /\ [](Returned /\ ret.success =>
             \A p \in Pix \ garment_mask : ret.colorized_image.px[p] = sketch.px[p])
    /\ [][sketch' = sketch]_vars

C6_Witness ==
    /\ Returned /\ ret.success
    /\ garment_mask # {} /\ garment_mask # Pix
    /\ \E p \in garment_mask : ret.colorized_image.px[p] # sketch.px[p]

\* The priority the specification gives the element regions (1 is highest).
Rank(name) ==
    CASE name = "straps" -> 1 [] name = "collar" -> 2 [] name = "trim" -> 3 [] OTHER -> 4

\* The element regions that hold pixel p and have a colour string supplied.
SuppliedRegions(p) ==
    {n \in DOMAIN element_regions \cap DOMAIN element_colors :
        p \in element_regions[n] /\ element_colors[n] # <<>>}

\* A '#'-prefixed string of hex digit pairs other than '#000000'.
IsNonBlackHex(str) ==
    str # <<>> /\ str[1] = "#" /\ str # BLACK_HEX /\ HexTriple(str) # <<>>

\* Those among them whose colour string is a hex colour other than '#000000'.
AcceptedRegions(p) == {n \in SuppliedRegions(p) : IsNonBlackHex(element_colors[n])}

Highest(S) == CHOOSE n \in S : \A m \in S : Rank(n) <= Rank(m)

ElementsInUse == pc \in {"color", "done"} /\ DOMAIN element_regions # {}

ScenarioD == [n \in {"straps", "main"} |-> IF n = "straps" THEN BLACK_HEX ELSE PINK_HEX]

RegionOrEmpty(name) ==
    IF name \in DOMAIN element_regions THEN element_regions[name] ELSE {}

\* The pixel written for a masked pixel blended from colour t.
BlendedFrom(t, p) ==
    IF MultiChannel
    THEN <<BlendChannel(t[1], gray[p]), BlendChannel(t[2], gray[p]), BlendChannel(t[3], gray[p])>>
    ELSE <<BlendGray(t, gray[p])>>

WellFormedHex(str) ==
    Len(str) = 7 /\ str[1] = "#" /\ \A i \in 2 .. 7 : HexVal(str[i]) >= 0

\* 'rgb(r,g,b)' with r, g, b decimal numbers in 0..255
WellFormedRgb(str) ==
    /\ Len(str) >= 10
    /\ SubSeq(str, 1, 4) = <<"r", "g", "b", "(">>
    /\ str[Len(str)] = ")"
    /\ LET body == SubSeq(str, 5, Len(str) - 1)
           numbers == DigitRuns(body, 0, FALSE)
       IN  /\ \A i \in 1 .. Len(body) : IsDigit(body[i]) \/ body[i] = ","
           /\ Cardinality({i \in 1 .. Len(body) : body[i] = ","}) = 2
           /\ Len(numbers) = 3
           /\ \A i \in 1 .. 3 : numbers[i] <= 255

\* C9: a target colour string that is neither a well-formed '#RRGGBB' nor a
\* well-formed 'rgb(r,g,b)' leaves the default gray target, and the call on an
\* RGB sketch still returns success.
C9_MalformedColorFallsBack ==
    (Returned /\ sketch.mode = "RGB" /\ target_color # <<>>
        /\ ~WellFormedHex(target_color) /\ ~WellFormedRgb(target_color)) =>
        /\ TARGET_GRAY = DEFAULT_GRAY
        /\ ret.success

\* The plain sketches whose black outline has its left side on column 0, and the
\* white pixels the outline encloses clear of its dilated line.
LeftTouchingRects == {rc \in Rects : rc[2] = 0}

IsOutlineOf(rc) == sketch = Render(Drawing(rc[1], rc[2], rc[3], rc[4], "K", -1, "W"), sketch.mode)

Interior(rc) ==
    {p \in Pix : Row(p) >= rc[1] + 2 /\ Row(p) <= rc[3] - 2
                 /\ Col(p) >= rc[2] + 2 /\ Col(p) <= rc[4] - 2}

\* C10 as stated: when the black outline touches the image border the enclosed
\* region is filtered out, clothing_areas_detected is 0 and the image is unchanged.
C10_TouchingOutlineFilteredOut ==
    \A rc \in LeftTouchingRects :
        (IsOutlineOf(rc) /\ Returned) =>
            /\ ret.success
            /\ ret.clothing_areas_detected = 0
            /\ ret.colorized_image = sketch

\* C10 as amended: the enclosed region itself has no pixel on the border, so it
\* is kept when larger than min_area: it is in the final mask, and a successful
\* call reports at least its pixels and, the target not being white, changes them.
C10_TouchingOutlineRegionKept ==
    \A rc \in LeftTouchingRects :
        IsOutlineOf(rc) =>
            /\ pc \in {"skin", "cleanup", "elements", "color", "done"} =>
                   Interior(rc) \subseteq garment_mask
            /\ (Returned /\ ret.success) =>
                   /\ ret.clothing_areas_detected >= Cardinality(Interior(rc))
                   /\ \A p \in Interior(rc) : ret.colorized_image.px[p] # sketch.px[p]

C10_Witness ==
    /\ IsOutlineOf(<<0, 0, h - 1, w - 1>>)
    /\ Returned /\ ret.success
    /\ Cardinality(Interior(<<0, 0, h - 1, w - 1>>)) > min_area
    /\ ret.clothing_areas_detected > 0
    /\ ret.colorized_image # sketch

\* The RGB sketches that are a white canvas with one closed black outline clear
\* of the border: the plain rectangles and the hourglass.
ClearRects == {rc \in Rects : rc[1] > 0 /\ rc[2] > 0 /\ rc[3] < h - 1 /\ rc[4] < w - 1}

ClosedOutlineSketches ==
    {Render(Drawing(rc[1], rc[2], rc[3], rc[4], "K", -1, "W"), "RGB") : rc \in ClearRects}
        \cup {Render(Hourglass, "RGB")}

\* The candidate pixels (white, not under the dilated line) of the outside
\* region, which reaches the border, and those the outline encloses.
OutsideCandidates == BorderTouchingCandidates

EnclosedCandidates == white_no_lines \ BorderTouchingCandidates

EnclosedRegions == Components(EnclosedCandidates, Connectivity)

\* C11 as stated: for a white RGB canvas with one closed black outline clear of
\* the border whose interior holds more than min_area candidate pixels, every
\* interior pixel the dilated line does not cover is in the final mask and is
\* set to exactly the target RGB, and the outside region is not in the mask and
\* keeps its input value.
C11_EnclosedInteriorGetsTarget ==
    (sketch \in ClosedOutlineSketches /\ FinalMaskReady
        /\ Cardinality(EnclosedCandidates) > min_area) =>
        /\ EnclosedCandidates \subseteq garment_mask
        /\ garment_mask \cap OutsideCandidates = {}
        /\ Returned =>
               /\ ret.success
               /\ \A p \in EnclosedCandidates : ret.colorized_image.px[p] = TARGET_GRAY
               /\ \A p \in OutsideCandidates : ret.colorized_image.px[p] = sketch.px[p]

\* C11 as amended: every connected region of enclosed candidate pixels that
\* itself holds more than min_area pixels is in the final mask and is set to
\* exactly the target RGB, and the outside region is not in the mask and keeps
\* its input value.
C11_EnclosedRegionGetsTarget ==
    (sketch \in ClosedOutlineSketches /\ FinalMaskReady) =>
        /\ \A C \in EnclosedRegions : Cardinality(C) > min_area => C \subseteq garment_mask
        /\ garment_mask \cap OutsideCandidates = {}
        /\ Returned =>
               /\ ret.success
               /\ \A C \in EnclosedRegions :
                      Cardinality(C) > min_area =>
                          \A p \in C : ret.colorized_image.px[p] = TARGET_GRAY
               /\ \A p \in OutsideCandidates : ret.colorized_image.px[p] = sketch.px[p]

C11_Witness ==
    /\ sketch = Render(ScenarioA, "RGB")
    /\ Returned /\ ret.success
    /\ \E C \in EnclosedRegions : Cardinality(C) > min_area /\ At(h \div 2, w \div 2) \in C
    /\ ret.colorized_image.px[At(h \div 2, w \div 2)] = <<255, 0, 0>>
    /\ ret.colorized_image.px[0] = <<255, 255, 255>>

\* C12: the OpenCV path and the scipy/PIL fallback path return the same image,
\* the same pixel count and the same success flag for the same call.
C12_PathsAgree ==
    (Returned /\ earlier # NOT_RETURNED) => ret = earlier

\* C13: the colorizer applied to its own output, with the same target colour
\* and thresholds, returns that output again: the second run changes no pixel.
C13_SecondRunChangesNothing ==
    (Returned /\ earlier # NOT_RETURNED) =>
        /\ ret.success
        /\ ret.colorized_image = earlier.colorized_image

\* The luma of an output pixel: the value of a grayscale pixel, the ITU-R 601
\* luma of an RGB one.
Luma(v) == IF Len(v) = 1 THEN v[1] ELSE GrayOf(v)

\* C14: recoloring does not invert shading: of two pixels of the final mask,
\* the one that is no brighter in the input is no brighter in the output, with
\* or without per-element colours.
C14_ShadingOrderKept ==
    (Returned /\ ret.success) =>
        \A p, q \in garment_mask :
            gray[p] <= gray[q] =>
                Luma(ret.colorized_image.px[p]) <= Luma(ret.colorized_image.px[q])

\* C15: of two protection levels a < b in [0, 1] (here in tenths), the zone
\* skin exclusion removes at b strictly contains the zone it removes at a,
\* whenever a skin pixel exists and the zone at a is not the whole image.
C15_ZoneStrictlyGrows ==
    (pc = "skin" /\ MultiChannel /\ SkinPixels # {}) =>
        \A a, b \in 0 .. 10 :
            (a < b /\ SkinZoneFor(a) # Pix) =>
                /\ SkinZoneFor(a) \subseteq SkinZoneFor(b)
                /\ SkinZoneFor(a) # SkinZoneFor(b)

\* C16: a second run with the same image, target colour, thresholds and element
\* colours returns the same success flag, the same image and the same pixel
\* count as the first, whatever state the first run left behind.
C16_RepeatedRunsAgree ==
    (Returned /\ earlier # NOT_RETURNED) =>
        /\ ret.success = earlier.success
        /\ ret.colorized_image = earlier.colorized_image
        /\ ret.success => ret.clothing_areas_detected = earlier.clothing_areas_detected
        /\ ~ret.success => ret.error = earlier.error

C16_Witness ==
    /\ Returned /\ earlier # NOT_RETURNED
    /\ ret.success /\ ret.clothing_areas_detected > 0
    /\ ret.colorized_image # sketch
    /\ ret = earlier

\* C17: a successful call returns a three-channel RGB image with the pixel
\* grid of the image passed in, for RGB and for grayscale input alike.
C17_OutputIsRgbSameSize ==
    (Returned /\ ret.success) =>
        /\ ret.colorized_image.mode = "RGB"
        /\ DOMAIN ret.colorized_image.px = DOMAIN sketch.px
        /\ \A p \in Pix : Len(ret.colorized_image.px[p]) = 3

\* C18: with no target colour and no element colour supplied the target is
\* the default gray (168,168,168), and a successful call sets every pixel of
\* the final mask to the blend of 168 with the pixel's brightness: (v, v, v)
\* for an RGB image.
C18_DefaultGrayApplied ==
    (Returned /\ target_color = <<>> /\ ~AnyElementColor) =>
        /\ TARGET_GRAY = <<168, 168, 168>>
        /\ ret.success =>
               \A p \in garment_mask :
                   ret.colorized_image.px[p] =
                       IF MultiChannel
                       THEN LET v == BlendChannel(168, gray[p]) IN <<v, v, v>>
                       ELSE <<BlendGray(<<168, 168, 168>>, gray[p])>>

C18_Witness ==
    /\ Returned /\ ret.success
    /\ target_color = <<>> /\ ~AnyElementColor
    /\ sketch.mode = "RGB"
    /\ \E p \in garment_mask :
          /\ sketch.px[p] = <<255, 255, 255>>
          /\ ret.colorized_image.px[p] = <<168, 168, 168>>

\* C19: an invocation that runs interleaved with another returns what it
\* returns when it runs alone; no step of the running invocation changes
\* anything the suspended one owns; and OPENCV_AVAILABLE is never written.
C19_InvocationsIsolated ==
    /\ []((Returned /\ earlier # NOT_RETURNED /\ other # NO_OTHER) => ret = earlier)
    /\ [][(other # NO_OTHER /\ other' # other) =>
              (other'.frame = Frame /\ Frame' = other.frame)]_vars
    /\ [][OPENCV_AVAILABLE' = OPENCV_AVAILABLE]_vars

C19_Witness ==
    /\ Returned /\ earlier # NOT_RETURNED /\ ret = earlier
    /\ ret.success /\ ret.clothing_areas_detected > 0
    /\ other # NO_OTHER
    /\ other.frame.pc \in {"filter", "skin", "cleanup", "elements", "color"}
    /\ other.frame.sketch # sketch

\* The connected candidate region that holds candidate pixel p.
RegionOf(p) == Reach(white_no_lines, Connectivity, {p}, {p})

\* C20: after the region-filter step a pixel is in the garment mask exactly
\* when it is a candidate pixel whose connected region has more than min_area
\* pixels and none in row 0, row h-1, column 0 or column w-1; a region of
\* exactly min_area pixels contributes nothing.
C20_FilterKeepsLargeEnclosedRegions ==
    pc = "skin" =>
        /\ garment_mask \subseteq white_no_lines
        /\ \A C \in Components(white_no_lines, Connectivity) :
               IF /\ Cardinality(C) > min_area
                  /\ \A q \in C : Row(q) # 0 /\ Row(q) # h - 1 /\ Col(q) # 0 /\ Col(q) # w - 1
               THEN C \subseteq garment_mask
               ELSE C \cap garment_mask = {}

C20_Witness ==
    /\ pc = "skin"
    /\ garment_mask = {}
    /\ \E p \in white_no_lines :
          /\ Cardinality(RegionOf(p)) = min_area
          /\ RegionOf(p) \cap border_mask = {}

\* round(t * (0.6 + 0.4 * g / 255)), to the nearest integer.
RoundedBlend(t, g) == (2 * t * (1530 + 4 * g) + 2550) \div 5100

\* C21: every channel of a masked pixel of an RGB image is the target channel
\* times 0.6 + 0.4 * g / 255, rounded to the nearest integer.
C21_ChannelIsRoundedBlend ==
    (Returned /\ ret.success /\ sketch.mode = "RGB") =>
        \A p \in garment_mask :
            \A i \in 1 .. 3 :
                ret.colorized_image.px[p][i] = RoundedBlend(PixelTarget(p)[i], gray[p])

\* The garment mask as Step 7 finds it: the kept regions less the skin zone.
MaskBeforeCleanup ==
    UNION KeptRegions(white_no_lines, Connectivity) \ (IF MultiChannel THEN SkinZone ELSE {})

\* C22: once Step 7 has run, every connected component of the garment mask (in
\* the connectivity of the path taken) has at least min_area pixels.
C22_NoSmallComponentSurvives ==
    FinalMaskReady =>
        \A C \in Components(garment_mask, Connectivity) : Cardinality(C) >= min_area

C22_Witness ==
    /\ pc = "elements"
    /\ MaskBeforeCleanup # {}
    /\ Cardinality(MaskBeforeCleanup) < min_area
    /\ garment_mask = {}


\* Python's round(n / d) for n >= 0: to the nearest integer, a tie to the even one.
PyRound(n, d) ==
    LET q == n \div d
        r == 2 * (n % d)
    IN  IF r > d \/ (r = d /\ q % 2 = 1) THEN q + 1 ELSE q

\* C24: for every skin_protection the skin mask is dilated with a kernel of size
\* max(3, round(5 * skin_protection)) for max(1, round(2 * skin_protection))
\* iterations (0.7 gives kernel size 4), on both library paths.
C24_DilationStrengthIsRounded ==
    (pc = "cleanup" /\ MultiChannel) =>
        /\ kernel_size = Max(3, PyRound(5 * skin_protection, 10))
        /\ iterations = Max(1, PyRound(2 * skin_protection, 10))


\* C25: the regions _detect_garment_elements returns cover the garment mask:
\* each is a subset of it, main shares no pixel with collar, straps or trim, and
\* their union is the garment mask.
C25_RegionsCoverMask ==
    (pc \in {"color", "done"} /\ AnyElementColor) =>
        /\ \A n \in DOMAIN element_regions : element_regions[n] \subseteq garment_mask
        /\ \A n \in DOMAIN element_regions \ {"main"} :
               RegionOrEmpty("main") \cap element_regions[n] = {}
        /\ UNION {element_regions[n] : n \in DOMAIN element_regions} = garment_mask

C25_Witness ==
    /\ pc = "color" /\ AnyElementColor
    /\ {"main", "straps", "trim"} \subseteq DOMAIN element_regions
    /\ element_regions["trim"] \cap element_regions["straps"] # {}

\* C26: an element colour given as rgb(r,g,b) is parsed to (r,g,b) and applied
\* to the element's pixels as a '#RRGGBB' string would be: each pixel of the
\* straps region, first in priority, is coloured from the parsed straps colour.
C26_RgbElementColorApplied ==
    (ElementsInUse /\ "straps" \in DOMAIN element_colors
        /\ WellFormedRgb(element_colors["straps"])) =>
        \A p \in RegionOrEmpty("straps") :
            PixelTarget(p) = ParseTargetColor(element_colors["straps"])

\* C27: the target triple used for recolouring has every channel in 0..255, and
\* so has every value written to the output.
C27_TargetChannelsInRange ==
    /\ pc # "parse" => ~OutOfRange(TARGET_GRAY)
    /\ pc = "color" => \A p \in garment_mask : ~OutOfRange(PixelValue(p))

\* C29: the collar and straps masks share no pixel.
C29_CollarStrapsDisjoint ==
    ElementsInUse => RegionOrEmpty("collar") \cap RegionOrEmpty("straps") = {}

C29_Witness ==
    /\ ElementsInUse
    /\ RegionOrEmpty("collar") # {} /\ RegionOrEmpty("straps") # {}

\* The pixels whose three channels all exceed white_threshold.
BrightPixels ==
    {p \in Pix : \A i \in 1 .. 3 : sketch.px[p][i] > white_threshold}

\* C30: whenever color_variance > 254 - white_threshold (so with the defaults
\* 245 and 30) the channel-difference test rejects no pixel: the white mask of
\* a colour image is the set of pixels whose R, G and B all exceed white_threshold.
C30_VarianceTestRedundant ==
    (pc \notin {"parse", "lines", "white"} /\ MultiChannel
        /\ color_variance > 254 - white_threshold) =>
        white_areas = BrightPixels

C30_Witness ==
    /\ pc = "filter" /\ MultiChannel
    /\ color_variance > 254 - white_threshold
    /\ \E p \in white_areas : sketch.px[p][1] # sketch.px[p][2]


HfFailed == response \in {"503", "raises"}

\* C28: when the HuggingFace request returns a non-200 status or raises,
\* colorize_sketch terminates and returns the dict of universal_garment_colorizer,
\* invoked exactly once with the caller's sketch (converted to RGB), target
\* colour, white_threshold, color_variance, skin_protection and element_colors;
\* _ai_colorization is entered once only.
C28_FallbackRunsBasicOnce ==
    /\ [](HfFailed => <>(server_pc = "returned"))
    /\ [](ai_calls <= 1 /\ universal_calls <= 1)
    /\ []((HfFailed /\ server_pc = "returned") =>
            /\ universal_calls = 1
            /\ pc = "done" /\ server_ret = ret
            /\ sketch = ConvertRGB(request.sketch)
            /\ target_color = request.target_color
            /\ white_threshold = request.white_threshold
            /\ color_variance = request.color_variance
            /\ skin_protection = request.skin_protection
            /\ element_colors = request.element_colors)

C28_Witness ==
    /\ server_pc = "returned" /\ response = "503"
    /\ universal_calls = 1 /\ ai_calls = 1
    /\ request.white_threshold # 245
    /\ request.element_colors # NO_ELEMENT_COLORS
    /\ request.sketch.mode = "L"
    /\ server_ret.success /\ server_ret.clothing_areas_detected > 0


\* C23: for a bodysuit or corset, no pixel of the fixed zone is in the clothing
\* mask that is recolored, nor in the mask after any step that follows the
\* exclusion.
C23_ZoneStaysExcluded ==
    (IsBodysuit(garment_analysis) /\ server_pc \in {"refine", "regions", "cleanup", "recolor", "returned"}) =>
        /\ clothing_mask \cap IntimateZone = {}
        /\ server_pc = "returned" => server_ret.recolored \cap IntimateZone = {}

=============================================================================
